---- MODULE Spec2Model ----
(***************************************************************************)
(* Streaming pipeline of the chat front end of ollama-web-api:             *)
(*   - streamGenerate (frontend/src/api.ts): NDJSON frame reassembly over  *)
(*     a chunked byte stream;                                              *)
(*   - Chat (frontend/src/components/Chat.tsx): handleSend, the fragment   *)
(*     queue and the paced processQueue loop.                              *)
(* Text is a sequence of one-character strings; bytes are one-character    *)
(* strings as well.                                                        *)
(***************************************************************************)
EXTENDS Integers, Sequences, FiniteSets, TLC

(***************************************************************************)
(* Bounds                                                                  *)
(***************************************************************************)
\* number of tokens the upstream body of SpecFrame is made of
MaxTokens == 3
\* number of handleSend calls in one Chat session
MaxSends == 2
\* number of chunks reader.read() hands out in one Chat session
MaxReads == 2

(***************************************************************************)
(* Program constants                                                       *)
(***************************************************************************)
\* ms between chunks in processQueue
wordDelay == 30

(***************************************************************************)
(* Bytes and characters                                                    *)
(***************************************************************************)
NL == "\n"
SP == " "
\* lead and continuation byte of one two-byte UTF-8 character, the
\* character they encode, and U+FFFD
LeadByte == "L"
ContByte == "C"
WideChar == "u"
Replacement == "?"

\* String.prototype.trim: whitespace off both ends
RECURSIVE TrimLeft(_)
TrimLeft(s) ==
  IF s # <<>> /\ Head(s) \in {SP, NL} THEN TrimLeft(Tail(s)) ELSE s

RECURSIVE TrimRight(_)
TrimRight(s) ==
  IF s # <<>> /\ s[Len(s)] \in {SP, NL}
  THEN TrimRight(SubSeq(s, 1, Len(s) - 1))
  ELSE s

trim(s) == TrimRight(TrimLeft(s))

\* TextDecoder.decode(value, {stream: true}): the UTF-8 decoder over one
\* chunk; partial = a lead byte is held back from the previous chunk.
\* Result: [text, partial].
RECURSIVE decodeFrom(_, _, _)
decodeFrom(value, partial, out) ==
  IF value = <<>> THEN [text |-> out, partial |-> partial]
  ELSE LET b == Head(value) IN
    IF partial
    THEN IF b = ContByte
         THEN decodeFrom(Tail(value), FALSE, Append(out, WideChar))
         ELSE decodeFrom(value, FALSE, Append(out, Replacement))
    ELSE IF b = LeadByte THEN decodeFrom(Tail(value), TRUE, out)
         ELSE IF b = ContByte
              THEN decodeFrom(Tail(value), FALSE, Append(out, Replacement))
              ELSE decodeFrom(Tail(value), FALSE, Append(out, b))

decode(value, partial) == decodeFrom(value, partial, <<>>)

\* String.prototype.split('\n'): the pieces between newlines, at least one
RECURSIVE splitFrom(_, _, _)
splitFrom(s, cur, out) ==
  IF s = <<>> THEN Append(out, cur)
  ELSE IF Head(s) = NL
       THEN splitFrom(Tail(s), <<>>, Append(out, cur))
       ELSE splitFrom(Tail(s), Append(cur, Head(s)), out)

split(s) == splitFrom(s, <<>>, <<>>)

(***************************************************************************)
(* JSON.parse on one trimmed line.  A line is an object when it is         *)
(* "{" payload "}" or "{" payload "d" "}": the payload is the value of the *)
(* response field, the "d" the field done=true.  Anything else throws.     *)
(***************************************************************************)
PayloadChars == {"a", "b", SP, WideChar, Replacement}

ParseOK(t) ==
  /\ Len(t) >= 2
  /\ t[1] = "{"
  /\ t[Len(t)] = "}"
  /\ \A i \in 2..(Len(t) - 1) :
       \/ t[i] \in PayloadChars
       \/ (t[i] = "d" /\ i = Len(t) - 1)

JSONparse(t) ==
  LET hasDone == Len(t) >= 3 /\ t[Len(t) - 1] = "d"
      last == IF hasDone THEN Len(t) - 2 ELSE Len(t) - 1
  IN [response |-> SubSeq(t, 2, last), done |-> hasDone]

\* a parse failure ends the loop over the lines instead of skipping the line
RECURSIVE parseLines_StopAtMalformed(_)
parseLines_StopAtMalformed(lines) ==
  IF lines = <<>> THEN <<>>
  ELSE LET trimmed == trim(Head(lines))
       IN IF trimmed = <<>> THEN parseLines_StopAtMalformed(Tail(lines))
          ELSE IF ParseOK(trimmed)
               THEN <<JSONparse(trimmed)>> \o parseLines_StopAtMalformed(Tail(lines))
               ELSE <<>>

\* the try/catch around JSON.parse for the lines of one chunk, in order:
\* the records that parsed
RECURSIVE parseLines(_)
parseLines(lines) ==
  IF lines = <<>> THEN <<>>
  ELSE LET trimmed == trim(Head(lines))
           rest == parseLines(Tail(lines))
       IN IF trimmed = <<>> THEN rest
          ELSE IF ParseOK(trimmed) THEN <<JSONparse(trimmed)>> \o rest
          ELSE rest

\* onChunk is called for every record, whatever its response field
RECURSIVE chunksOf_All(_)
chunksOf_All(recs) ==
  IF recs = <<>> THEN <<>>
  ELSE <<Head(recs).response>> \o chunksOf_All(Tail(recs))

\* json.response && onChunk: the arguments of the onChunk calls
RECURSIVE chunksOf(_)
chunksOf(recs) ==
  IF recs = <<>> THEN <<>>
  ELSE IF Head(recs).response # <<>>
       THEN <<Head(recs).response>> \o chunksOf(Tail(recs))
       ELSE chunksOf(Tail(recs))

\* the complete lines stay in the buffer after they have been parsed
processValue_KeepLines(buffer, partial, value) ==
  LET dec == decode(value, partial)
      lines == split(buffer \o dec.text)
  IN [buffer |-> buffer \o dec.text,
      partial |-> dec.partial,
      recs |-> parseLines(SubSeq(lines, 1, Len(lines) - 1))]

\* the buffer is not carried over: each chunk is split on its own
processValue_NoCarry(buffer, partial, value) ==
  LET dec == decode(value, partial)
      lines == split(dec.text)
  IN [buffer |-> lines[Len(lines)],
      partial |-> dec.partial,
      recs |-> parseLines(SubSeq(lines, 1, Len(lines) - 1))]

\* one iteration of the read loop with a value: the new buffer, the decoder
\* state and the records parsed from the complete lines
processValue(buffer, partial, value) ==
  LET dec == decode(value, partial)
      lines == split(buffer \o dec.text)
  IN [buffer |-> lines[Len(lines)],
      partial |-> dec.partial,
      recs |-> parseLines(SubSeq(lines, 1, Len(lines) - 1))]

\* the rest of the buffer is dropped at the end of the stream
finalRecords_Dropped(buffer) == <<>>

\* after the loop: the remaining buffer is parsed once
finalRecords(buffer) ==
  IF trim(buffer) # <<>> /\ ParseOK(trim(buffer))
  THEN <<JSONparse(trim(buffer))>>
  ELSE <<>>

(***************************************************************************)
(* State                                                                   *)
(***************************************************************************)
VARIABLES
  \* streamGenerate called on its own, with an onChunk that records its calls
  upstream,    \* the whole body the server will send, as bytes
  delivered,   \* how many of its bytes reader.read() has handed out
  nreads,      \* how many chunks they came in
  buffer,      \* let buffer
  partial,     \* the TextDecoder's held-back lead byte
  records,     \* the values JSON.parse returned, in order
  chunks,      \* the arguments of the onChunk calls, in order
  rpc,         \* "reading" in the while loop, "done" after the promise settled
  \* one Chat component
  apiKey,      \* useState apiKey
  prompt,      \* useState prompt
  isStreaming, \* useState isStreaming
  messages,    \* useState messages
  chunkQueue,  \* chunkQueueRef.current
  animating,   \* animatingRef.current
  timers,      \* the pending setTimeout of each suspended processQueue call:
               \* the milliseconds left
  sends,       \* the handleSend calls, each with its streamGenerate call
  sinceAppend, \* milliseconds since processQueue last appended (up to wordDelay)
  minGap,      \* the shortest time between two appends of processQueue so far
  page,        \* whether the /chat route still shows the component, and how
               \* many steps streamGenerate and processQueue ran since it
               \* stopped doing so (up to 2)
  \* the backend
  db,          \* database.DB: the projects and project_models tables
  exch,        \* the POST /api/ollama/generate request being served
  admin        \* the project administration requests being served

frameVars == <<upstream, delivered, nreads, buffer, partial, records, chunks, rpc>>

chatVars == <<apiKey, prompt, isStreaming, messages, chunkQueue, animating,
              timers, sends, sinceAppend, minGap, page>>

vars == <<upstream, delivered, nreads, buffer, partial, records, chunks, rpc,
          apiKey, prompt, isStreaming, messages, chunkQueue, animating,
          timers, sends, sinceAppend, minGap, page,
          db, exch, admin>>

apiVars == <<db, exch, admin>>

\* the component is on the page
Shown == [mounted |-> TRUE, ran |-> 0]

\* ---------------------------------------------------------------------
\* Backend: the generate endpoint's data and pure steps
\* ---------------------------------------------------------------------

\* the most chunks an engine body arrives in
MaxBody == 2

StatusOK == 200
StatusBadRequest == 400
StatusUnauthorized == 401
StatusForbidden == 403
StatusInternalServerError == 500
StatusBadGateway == 502

\* the statuses the engine answers with
EngineStatuses == { StatusOK, 201, 404 }

\* the content types the engine answers with
EngineTypes == { "application/json", "application/x-ndjson" }

\* X-API-Key header values; "" is an absent header
Headers == { "", "k1", "k2", "zz" }

\* request bodies: the content type, whether the body is well-formed in it,
\* the fields it carries ("" and FALSE for an absent field), the values of
\* its images field and, in a multipart form, the file parts named
\* attachments
RequestBodies ==
  [ctype : {"application/json", "multipart/form-data"}, ok : {TRUE},
   model : {"", "m1", "m2"}, prompt : {"", "p"}, stream : BOOLEAN,
   images : {<<>>}, attachments : {<<>>}]
  \cup
  [ctype : {"application/json"}, ok : {TRUE},
   model : {"m1"}, prompt : {"p"}, stream : {FALSE},
   images : {<<"i1", "i2">>}, attachments : {<<>>}]
  \cup
  [ctype : {"multipart/form-data"}, ok : {TRUE},
   model : {"m1"}, prompt : {"p"}, stream : {TRUE},
   images : {<<>>}, attachments : {<<"f1", "f2">>, <<"f2", "f1">>}]
  \cup
  [ctype : {"application/json", "multipart/form-data", "text/plain"},
   ok : {FALSE}, model : {"m1"}, prompt : {"p"}, stream : {FALSE},
   images : {<<>>}, attachments : {<<>>}]

\* pieces of an engine body: a JSON object with or without fields beyond the
\* four of OllamaResponse, white space, and bytes that are not JSON
EngineObject(model, created_at, response, done, extra) ==
  [kind |-> "obj", model |-> model, created_at |-> created_at,
   response |-> response, done |-> done, extra |-> extra]

EngineChunks ==
  { EngineObject("m1", "t", "hi", TRUE, TRUE),
    EngineObject("", "", "a", FALSE, FALSE),
    [kind |-> "ws", model |-> "", created_at |-> "", response |-> "",
     done |-> FALSE, extra |-> FALSE],
    [kind |-> "junk", model |-> "", created_at |-> "", response |-> "",
     done |-> FALSE, extra |-> FALSE] }

\* empty tables
NoRows == [projects |-> <<>>, project_models |-> <<>>, next_id |-> 1]

\* the clients that call the project administration routes
Admins == {"a", "b"}

\* no administration request being served by a; status keeps the status of
\* the last response to a
NoCall ==
  [pc |-> "idle", project_id |-> 0, is_active |-> FALSE, model_name |-> "",
   status |-> 0]

NoAdmin == [a \in Admins |-> NoCall]

\* models.OllamaRequest's zero value
NoRequest == [model |-> "", prompt |-> "", stream |-> FALSE, images |-> <<>>]

\* no response written yet
NoResponse ==
  [status |-> 0, ctype |-> "", error |-> "", body |-> <<>>]

\* no request being served
NoExchange ==
  [pc |-> "idle", header |-> "",
   body |-> [ctype |-> "", ok |-> FALSE, model |-> "", prompt |-> "",
             stream |-> FALSE, images |-> <<>>, attachments |-> <<>>],
   req |-> NoRequest, called |-> FALSE,
   upState |-> "none", upStatus |-> 0, upType |-> "", upBody |-> <<>>,
   resp |-> NoResponse]

\* c.Status(status).JSON(models.ErrorResponse{Error, Message})
ErrorResponse(status, error, message) ==
  [status |-> status, ctype |-> "application/json", error |-> error,
   body |-> message]

\* DB.Where("api_key = ?", apiKey).First(&project): the matching rows
findProject(d, key) ==
  SelectSeq(d.projects, LAMBDA p : p.api_key = key)

\* the modelAssigned loop over the preloaded project.Models
modelAssigned(d, project, model) ==
  \E i \in 1..Len(d.project_models) :
    /\ d.project_models[i].project_id = project.id
    /\ d.project_models[i].model_name = model

\* c.BodyParser(&req): the error and the fields decoded by their names;
\* the file parts of a multipart form belong to no field of OllamaRequest
BodyParser(body) ==
  IF body.ok /\ body.ctype \in {"application/json", "multipart/form-data"}
  THEN [err |-> FALSE,
        req |-> [model |-> body.model, prompt |-> body.prompt,
                 stream |-> body.stream, images |-> body.images]]
  ELSE [err |-> TRUE, req |-> NoRequest]

\* the is_active check is missing
precheck_NoActiveCheck(d, header, body) ==
  IF header = ""
  THEN ErrorResponse(StatusUnauthorized, "Missing API key", <<>>)
  ELSE IF findProject(d, header) = <<>>
  THEN ErrorResponse(StatusUnauthorized, "Invalid API key", <<>>)
  ELSE IF BodyParser(body).err
  THEN ErrorResponse(StatusBadRequest, "Invalid request", <<>>)
  ELSE IF ~modelAssigned(d, Head(findProject(d, header)),
                         BodyParser(body).req.model)
  THEN ErrorResponse(StatusForbidden, "Model not available", <<>>)
  ELSE NoResponse

\* the model-assignment check is missing
precheck_NoModelCheck(d, header, body) ==
  IF header = ""
  THEN ErrorResponse(StatusUnauthorized, "Missing API key", <<>>)
  ELSE IF findProject(d, header) = <<>>
  THEN ErrorResponse(StatusUnauthorized, "Invalid API key", <<>>)
  ELSE IF ~Head(findProject(d, header)).is_active
  THEN ErrorResponse(StatusForbidden, "Project inactive", <<>>)
  ELSE IF BodyParser(body).err
  THEN ErrorResponse(StatusBadRequest, "Invalid request", <<>>)
  ELSE NoResponse

\* ValidateAPIKey, then OllamaGenerate as far as client.Post: the response
\* of an early return, NoResponse when the request goes on to the engine
precheck(d, header, body) ==
  IF header = ""
  THEN ErrorResponse(StatusUnauthorized, "Missing API key", <<>>)
  ELSE IF findProject(d, header) = <<>>
  THEN ErrorResponse(StatusUnauthorized, "Invalid API key", <<>>)
  ELSE IF ~Head(findProject(d, header)).is_active
  THEN ErrorResponse(StatusForbidden, "Project inactive", <<>>)
  ELSE IF BodyParser(body).err
  THEN ErrorResponse(StatusBadRequest, "Invalid request", <<>>)
  ELSE IF ~modelAssigned(d, Head(findProject(d, header)),
                         BodyParser(body).req.model)
  THEN ErrorResponse(StatusForbidden, "Model not available", <<>>)
  ELSE NoResponse

\* a failed connection is answered as an empty success
connectFailure_Empty ==
  [status |-> StatusOK, ctype |-> "application/json", error |-> "",
   body |-> <<>>]

\* client.Post returned an error
connectFailure ==
  ErrorResponse(StatusBadGateway, "Failed to connect to Ollama", <<>>)

\* io.ReadAll returned an error
readFailure ==
  ErrorResponse(StatusInternalServerError, "Failed to read response", <<>>)

\* json.Unmarshal(body, &ollamaResp): one JSON object, white space around
\* it allowed; the four fields are kept, any others are dropped
Unmarshal(body) ==
  LET values == SelectSeq(body, LAMBDA t : t.kind # "ws")
  IN IF Len(values) = 1 /\ values[1].kind = "obj"
     THEN [err |-> FALSE,
           value |-> EngineObject(values[1].model, values[1].created_at,
                                  values[1].response, values[1].done, FALSE)]
     ELSE [err |-> TRUE, value |-> EngineObject("", "", "", FALSE, FALSE)]

\* every engine answer is reported with the gateway's own error status
engineReply_Gateway(status, body) ==
  IF status # StatusOK
  THEN ErrorResponse(503, "Ollama API error", body)
  ELSE IF Unmarshal(body).err
  THEN [status |-> StatusOK, ctype |-> "application/json", error |-> "",
        body |-> body]
  ELSE [status |-> StatusOK, ctype |-> "application/json", error |-> "",
        body |-> <<Unmarshal(body).value>>]

\* the response once the whole engine body has been read
engineReply(status, body) ==
  IF status # StatusOK
  THEN ErrorResponse(status, "Ollama API error", body)
  ELSE IF Unmarshal(body).err
  THEN [status |-> StatusOK, ctype |-> "application/json", error |-> "",
        body |-> body]
  ELSE [status |-> StatusOK, ctype |-> "application/json", error |-> "",
        body |-> <<Unmarshal(body).value>>]

(***************************************************************************)
(* streamGenerate on its own (SpecFrame)                                   *)
(***************************************************************************)
\* the pieces upstream bodies are made of: a complete line, a line that is
\* no JSON, a record with done=true and no response and no newline, a record
\* holding a two-byte character, a newline, a space, a lone lead byte
Tokens ==
  { <<"{", "a", "}", NL>>,
    <<"x", NL>>,
    <<"{", "d", "}">>,
    <<"{", LeadByte, ContByte, "}">>,
    <<NL>>,
    <<SP>>,
    <<LeadByte>> }

RECURSIVE Flatten(_)
Flatten(ss) == IF ss = <<>> THEN <<>> ELSE Head(ss) \o Flatten(Tail(ss))

TokenSeqs == UNION { [1..n -> Tokens] : n \in 0..MaxTokens }

Bodies == { Flatten(ts) : ts \in TokenSeqs }

FrameInit ==
  /\ upstream \in Bodies
  /\ delivered = 0
  /\ nreads = 0
  /\ buffer = <<>>
  /\ partial = FALSE
  /\ records = <<>>
  /\ chunks = <<>>
  /\ rpc = "reading"
  /\ apiKey = <<>>
  /\ prompt = <<>>
  /\ isStreaming = FALSE
  /\ messages = <<>>
  /\ chunkQueue = <<>>
  /\ animating = FALSE
  /\ timers = <<>>
  /\ sends = <<>>
  /\ sinceAppend = wordDelay
  /\ minGap = wordDelay
  /\ page = Shown
  /\ db = NoRows
  /\ exch = NoExchange
  /\ admin = NoAdmin

\* reader.read() resolves with the next k bytes: one iteration with a value
FrameRead ==
  /\ rpc = "reading"
  /\ \E k \in 1..(Len(upstream) - delivered) :
       LET value == SubSeq(upstream, delivered + 1, delivered + k)
           r == processValue(buffer, partial, value)
       IN /\ delivered' = delivered + k
          /\ nreads' = nreads + 1
          /\ buffer' = r.buffer
          /\ partial' = r.partial
          /\ records' = records \o r.recs
          /\ chunks' = chunks \o chunksOf(r.recs)
  /\ UNCHANGED <<upstream, rpc>>
  /\ UNCHANGED chatVars
  /\ UNCHANGED apiVars

\* reader.read() resolves with done: the loop ends, the rest of the buffer is
\* parsed and the promise resolves
FrameEnd ==
  /\ rpc = "reading"
  /\ delivered = Len(upstream)
  /\ LET recs == finalRecords(buffer)
     IN /\ records' = records \o recs
        /\ chunks' = chunks \o chunksOf(recs)
  /\ rpc' = "done"
  /\ UNCHANGED <<upstream, delivered, nreads, buffer, partial>>
  /\ UNCHANGED chatVars
  /\ UNCHANGED apiVars

FrameNext == FrameRead \/ FrameEnd

SpecFrame == FrameInit /\ [][FrameNext]_vars

\* the same body delivered as a single chunk, then the end of the stream
oneChunkRecords(S) ==
  LET r == IF S = <<>> THEN [buffer |-> <<>>, partial |-> FALSE, recs |-> <<>>]
           ELSE processValue(<<>>, FALSE, S)
  IN r.recs \o finalRecords(r.buffer)

\* C1: however the body is split into chunks, the records parsed and the
\* onChunk calls are those of the body delivered as one chunk
C1_ChunkInvariance ==
  rpc = "done" =>
    /\ records = oneChunkRecords(upstream)
    /\ chunks = chunksOf(oneChunkRecords(upstream))

\* a body of two records and more, delivered byte by byte
C1_Witness ==
  /\ rpc = "done"
  /\ Len(records) >= 2
  /\ chunks # <<>>
  /\ nreads = Len(upstream)

\* the text of the bytes delivered so far, and its lines
TextSoFar == decode(SubSeq(upstream, 1, delivered), FALSE).text

LinesSoFar == split(TextSoFar)

CompleteLines == SubSeq(LinesSoFar, 1, Len(LinesSoFar) - 1)

LastLine == LinesSoFar[Len(LinesSoFar)]

WellFormed(line) == ParseOK(trim(line))

Malformed(line) == trim(line) # <<>> /\ ~ParseOK(trim(line))

\* the records of the well-formed lines among lines, in order
RecordsOfLines(lines) ==
  LET good == SelectSeq(lines, WellFormed)
  IN [i \in 1..Len(good) |-> JSONparse(trim(good[i]))]

\* C5: at every point of the stream the records parsed are those of the
\* well-formed complete lines received so far, in order, whatever malformed
\* lines lie between them; the stream goes on to its end
C5_MalformedSkipped ==
  /\ rpc = "reading" => records = RecordsOfLines(CompleteLines)
  /\ rpc = "done" =>
       LET R == RecordsOfLines(CompleteLines)
       IN Len(records) >= Len(R) /\ SubSeq(records, 1, Len(R)) = R

\* a malformed line between two well-formed ones, all three parsed over
C5_Witness ==
  /\ rpc = "done"
  /\ \E i, j, k \in 1..Len(CompleteLines) :
       /\ i < j /\ j < k
       /\ WellFormed(CompleteLines[i])
       /\ Malformed(CompleteLines[j])
       /\ WellFormed(CompleteLines[k])
  /\ Len(records) >= 2

\* C6: when the stream ends, the text after the last newline, if it is not
\* blank, is parsed once: it adds its record when it parses and nothing
\* when it does not
C6_TrailingLine ==
  [][(rpc = "reading" /\ rpc' = "done") =>
       records' = records \o
         (IF trim(LastLine) # <<>> /\ ParseOK(trim(LastLine))
          THEN <<JSONparse(trim(LastLine))>>
          ELSE <<>>)]_vars

\* a stream that ended on a record without a newline, after a complete line
C6_Witness ==
  /\ rpc = "done"
  /\ WellFormed(LastLine)
  /\ Len(records) >= 2
  /\ records[Len(records)] = JSONparse(trim(LastLine))

\* the response fields of the records that have a non-empty one, in order
NonEmptyResponses(recs) ==
  LET full == SelectSeq(recs, LAMBDA r : r.response # <<>>)
  IN [i \in 1..Len(full) |-> full[i].response]

\* C13: onChunk is called once, with the response text, for each parsed
\* record whose response is not empty and not at all for the others: the
\* calls are as many as those records and carry their texts in order
C13_FieldExtraction ==
  /\ chunks = NonEmptyResponses(records)
  /\ Len(chunks) = Cardinality({ i \in 1..Len(records) : records[i].response # <<>> })
  /\ \A i \in 1..Len(chunks) : chunks[i] # <<>>

\* a stream that held records with and without a response
C13_Witness ==
  /\ rpc = "done"
  /\ \E i, j \in 1..Len(records) :
       records[i].response = <<>> /\ records[j].response # <<>>
  /\ chunks # <<>>

(***************************************************************************)
(* Chat: messages                                                          *)
(***************************************************************************)
Min(a, b) == IF a <= b THEN a ELSE b
Max(a, b) == IF a >= b THEN a ELSE b

\* Array.prototype.findIndex by id; 0 stands for -1
findIndex(m, id) ==
  IF \E i \in 1..Len(m) : m[i].id = id
  THEN CHOOSE i \in 1..Len(m) :
         /\ m[i].id = id
         /\ \A j \in 1..(i - 1) : m[j].id # id
  ELSE 0

\* String(Date.now()) + Math.random(): an id no message has yet
freshId(m) == Len(m) + 1

pushUserMessage(m, text) ==
  Append(m, [id |-> freshId(m), role |-> "user", text |-> text,
             streaming |-> FALSE, images |-> <<>>])

pushAssistantMessage(m) ==
  Append(m, [id |-> freshId(m), role |-> "assistant", text |-> <<>>,
             streaming |-> TRUE, images |-> <<>>])

\* the text is appended to every assistant message
appendToAssistant_All(m, id, text) ==
  [i \in 1..Len(m) |->
     IF m[i].role = "assistant" THEN [m[i] EXCEPT !.text = @ \o text]
     ELSE m[i]]

\* the copy of the message is made with the streaming flag set again
appendToAssistant_Restream(m, id, text) ==
  LET idx == findIndex(m, id)
  IN IF idx # 0
     THEN [m EXCEPT ![idx].text = @ \o text, ![idx].streaming = TRUE]
     ELSE m

appendToAssistant(m, id, text) ==
  LET idx == findIndex(m, id)
  IN IF idx # 0 THEN [m EXCEPT ![idx].text = @ \o text] ELSE m

\* the flag is written to no message
setAssistantStreaming_Keep(m, id, streaming) == m

setAssistantStreaming(m, id, streaming) ==
  [i \in 1..Len(m) |->
     IF m[i].id = id THEN [m[i] EXCEPT !.streaming = streaming] ELSE m[i]]

\* '\n[Error] ' + err.message
ErrorText == <<NL, "E">>

(***************************************************************************)
(* Chat: the fragment queue and the pacing loop.  P is the part of the     *)
(* state the two touch: messages, chunkQueue, animating, timers and the    *)
(* two clocks.                                                             *)
(***************************************************************************)
\* the item is taken with pop() instead of shift()
processQueue_Pop(P) ==
  IF P.chunkQueue # <<>>
  THEN LET item == P.chunkQueue[Len(P.chunkQueue)]
       IN [P EXCEPT !.chunkQueue = SubSeq(@, 1, Len(@) - 1),
                    !.messages = appendToAssistant(@, item.id, item.chunk),
                    !.timers = Append(@, wordDelay),
                    !.minGap = Min(@, P.sinceAppend),
                    !.sinceAppend = 0]
  ELSE [P EXCEPT !.animating = FALSE]

\* animatingRef is not cleared when the queue has drained
processQueue_NeverIdle(P) ==
  IF P.chunkQueue # <<>>
  THEN LET item == Head(P.chunkQueue)
       IN [P EXCEPT !.chunkQueue = Tail(@),
                    !.messages = appendToAssistant(@, item.id, item.chunk),
                    !.timers = Append(@, wordDelay),
                    !.minGap = Min(@, P.sinceAppend),
                    !.sinceAppend = 0]
  ELSE P

\* the loop does not await the timer: it goes on to the next item at once
RECURSIVE processQueue_NoAwait(_)
processQueue_NoAwait(P) ==
  IF P.chunkQueue # <<>>
  THEN LET item == Head(P.chunkQueue)
       IN processQueue_NoAwait(
            [P EXCEPT !.chunkQueue = Tail(@),
                      !.messages = appendToAssistant(@, item.id, item.chunk),
                      !.minGap = Min(@, P.sinceAppend),
                      !.sinceAppend = 0])
  ELSE [P EXCEPT !.animating = FALSE]

\* processQueue from the head of its while loop to its next suspension (the
\* await of the timer) or to its end
processQueue(P) ==
  IF P.chunkQueue # <<>>
  THEN LET item == Head(P.chunkQueue)
       IN [P EXCEPT !.chunkQueue = Tail(@),
                    !.messages = appendToAssistant(@, item.id, item.chunk),
                    !.timers = Append(@, wordDelay),
                    !.minGap = Min(@, P.sinceAppend),
                    !.sinceAppend = 0]
  ELSE [P EXCEPT !.animating = FALSE]

\* the fragment is queued and no processQueue is started for it
enqueueChunk_NoStart(P, id, chunk) ==
  IF chunk = <<>> THEN P
  ELSE [P EXCEPT !.chunkQueue = Append(@, [id |-> id, chunk |-> chunk])]

\* processQueue is started whether or not one is running
enqueueChunk_NoGuard(P, id, chunk) ==
  IF chunk = <<>> THEN P
  ELSE processQueue([P EXCEPT !.chunkQueue = Append(@, [id |-> id, chunk |-> chunk]),
                              !.animating = TRUE])

enqueueChunk(P, id, chunk) ==
  IF chunk = <<>> THEN P
  ELSE LET Q == [P EXCEPT !.chunkQueue = Append(@, [id |-> id, chunk |-> chunk])]
       IN IF ~Q.animating
          THEN processQueue([Q EXCEPT !.animating = TRUE])
          ELSE Q

\* the onChunk callback of handleSend, called for each chunk in turn
RECURSIVE onChunks(_, _, _)
onChunks(P, id, cs) ==
  IF cs = <<>> THEN P
  ELSE onChunks(enqueueChunk(P, id, Head(cs)), id, Tail(cs))

Pacing ==
  [messages |-> messages, chunkQueue |-> chunkQueue, animating |-> animating,
   timers |-> timers, sinceAppend |-> sinceAppend, minGap |-> minGap]

SetPacing(P) ==
  /\ messages' = P.messages
  /\ chunkQueue' = P.chunkQueue
  /\ animating' = P.animating
  /\ timers' = P.timers
  /\ sinceAppend' = P.sinceAppend
  /\ minGap' = P.minGap

\* the catch block swallows the error
settle_Silent(P, id, failed) ==
  [P EXCEPT !.messages = setAssistantStreaming(P.messages, id, FALSE)]

\* the error text joins the back of the queue instead of being appended
settle_Queued(P, id, failed) ==
  LET Q == IF failed THEN enqueueChunk(P, id, ErrorText) ELSE P
  IN [Q EXCEPT !.messages = setAssistantStreaming(Q.messages, id, FALSE)]

\* handleSend's catch and finally blocks
settle(P, id, failed) ==
  LET m1 == IF failed THEN appendToAssistant(P.messages, id, ErrorText)
            ELSE P.messages
  IN [P EXCEPT !.messages = setAssistantStreaming(m1, id, FALSE)]

(***************************************************************************)
(* Chat: the session (Spec)                                                *)
(***************************************************************************)
\* what the user types into the textarea
Prompts == { <<SP>>, <<"p">> }

\* the chunks the network hands to reader.read(): a line with done=true and
\* the start of the next line; the end of a line and a last line without its
\* newline
Values ==
  { <<"{", "a", "d", "}", NL, "{", "b">>,
    <<"}", NL, "{", "a", "}">> }

Init ==
  /\ upstream = <<>>
  /\ delivered = 0
  /\ nreads = 0
  /\ buffer = <<>>
  /\ partial = FALSE
  /\ records = <<>>
  /\ chunks = <<>>
  /\ rpc = "done"
  /\ apiKey \in { <<>>, <<"k">> }
  /\ prompt = <<>>
  /\ isStreaming = FALSE
  /\ messages = <<>>
  /\ chunkQueue = <<>>
  /\ animating = FALSE
  /\ timers = <<>>
  /\ sends = <<>>
  /\ sinceAppend = wordDelay
  /\ minGap = wordDelay
  /\ page = Shown
  /\ db = NoRows
  /\ exch = NoExchange
  /\ admin = NoAdmin

\* a step of streamGenerate or processQueue is counted once the component
\* has left the page
Ran(pg) == IF pg.mounted THEN pg ELSE [pg EXCEPT !.ran = Min(@ + 1, 2)]

\* textarea onChange
TypePrompt ==
  /\ page.mounted
  /\ \E p \in Prompts : prompt' = p
  /\ prompt' # prompt
  /\ Len(sends) < MaxSends
  /\ UNCHANGED <<apiKey, isStreaming, messages, chunkQueue, animating, timers,
                 sends, sinceAppend, minGap>>
  /\ UNCHANGED page
  /\ UNCHANGED frameVars
  /\ UNCHANGED apiVars

\* handleSend up to its first await (of pushUserMessage)
handleSend ==
  /\ apiKey # <<>>
  /\ ~(prompt = <<>> \/ trim(prompt) = <<>>)
  /\ Len(sends) < MaxSends
  /\ prompt' = <<>>
  /\ sends' = Append(sends, [pc |-> "push", prompt |-> prompt, assistantId |-> 0,
                             buffer |-> <<>>, partial |-> FALSE, reads |-> 0,
                             records |-> <<>>])
  /\ UNCHANGED <<apiKey, isStreaming, messages, chunkQueue, animating, timers,
                 sinceAppend, minGap>>
  /\ UNCHANGED page
  /\ UNCHANGED frameVars
  /\ UNCHANGED apiVars

\* the send button: disabled={isStreaming || !prompt.trim()}
ClickSend ==
  /\ page.mounted
  /\ ~(isStreaming \/ trim(prompt) = <<>>)
  /\ handleSend

\* Enter without Shift in the textarea
PressEnter == page.mounted /\ handleSend

\* pushUserMessage resolves: the user message and the assistant placeholder
\* are pushed, isStreaming is set and streamGenerate calls fetch
PushMessages(k) ==
  /\ sends[k].pc = "push"
  /\ LET m1 == pushUserMessage(messages, sends[k].prompt)
         assistantId == freshId(m1)
     IN /\ messages' = pushAssistantMessage(m1)
        /\ sends' = [sends EXCEPT ![k].pc = "fetch",
                                  ![k].assistantId = assistantId]
  /\ isStreaming' = TRUE
  /\ UNCHANGED <<apiKey, prompt, chunkQueue, animating, timers, sinceAppend,
                 minGap>>
  /\ UNCHANGED page
  /\ UNCHANGED frameVars
  /\ UNCHANGED apiVars

\* fetch resolves with res.ok and a body
FetchOk(k) ==
  /\ sends[k].pc = "fetch"
  /\ sends' = [sends EXCEPT ![k].pc = "reading"]
  /\ UNCHANGED <<apiKey, prompt, isStreaming, messages, chunkQueue, animating,
                 timers, sinceAppend, minGap>>
  /\ UNCHANGED page
  /\ UNCHANGED frameVars
  /\ UNCHANGED apiVars

\* streamGenerate settles and handleSend runs catch (when it rejected) and
\* finally
Settle(k, recs, failed) ==
  LET id == sends[k].assistantId
      P == onChunks(Pacing, id, chunksOf(recs))
  IN /\ SetPacing(settle(P, id, failed))
     /\ isStreaming' = FALSE
     /\ sends' = [sends EXCEPT ![k].pc = IF failed THEN "errored" ELSE "completed",
                               ![k].records = @ \o recs]
     /\ UNCHANGED <<apiKey, prompt>>
     /\ page' = Ran(page)
     /\ UNCHANGED frameVars
     /\ UNCHANGED apiVars

\* fetch rejects, or resolves with !res.ok: streamGenerate throws
FetchFail(k) ==
  /\ sends[k].pc = "fetch"
  /\ Settle(k, <<>>, TRUE)

\* fetch resolves with res.ok and no body: streamGenerate returns
FetchNoBody(k) ==
  /\ sends[k].pc = "fetch"
  /\ Settle(k, <<>>, FALSE)

RECURSIVE SumReads(_)
SumReads(ss) == IF ss = <<>> THEN 0 ELSE Head(ss).reads + SumReads(Tail(ss))

TotalReads == SumReads(sends)

\* reader.read() resolves with a value: one iteration of the read loop, with
\* the onChunk calls it makes
ReadValue(k) ==
  /\ sends[k].pc = "reading"
  /\ TotalReads < MaxReads
  /\ \E value \in Values :
       LET r == processValue(sends[k].buffer, sends[k].partial, value)
       IN /\ SetPacing(onChunks(Pacing, sends[k].assistantId, chunksOf(r.recs)))
          /\ sends' = [sends EXCEPT ![k].buffer = r.buffer,
                                    ![k].partial = r.partial,
                                    ![k].reads = @ + 1,
                                    ![k].records = @ \o r.recs]
  /\ UNCHANGED <<apiKey, prompt, isStreaming>>
  /\ page' = Ran(page)
  /\ UNCHANGED frameVars
  /\ UNCHANGED apiVars

\* reader.read() resolves with done: the rest of the buffer is parsed and
\* streamGenerate resolves
ReadDone(k) ==
  /\ sends[k].pc = "reading"
  /\ Settle(k, finalRecords(sends[k].buffer), FALSE)

\* reader.read() rejects: streamGenerate rejects
ReadError(k) ==
  /\ sends[k].pc = "reading"
  /\ Settle(k, <<>>, TRUE)

\* the timer of a suspended processQueue call fires: the call goes on from
\* the head of its loop
TimerFires ==
  /\ \E i \in 1..Len(timers) :
       /\ timers[i] = 0
       /\ LET rest == SubSeq(timers, 1, i - 1) \o SubSeq(timers, i + 1, Len(timers))
          IN SetPacing(processQueue([Pacing EXCEPT !.timers = rest]))
  /\ UNCHANGED <<apiKey, prompt, isStreaming, sends>>
  /\ page' = Ran(page)
  /\ UNCHANGED frameVars
  /\ UNCHANGED apiVars

\* time passes
Tick ==
  /\ timers' = [i \in 1..Len(timers) |-> Max(0, timers[i] - wordDelay)]
  /\ sinceAppend' = Min(wordDelay, sinceAppend + wordDelay)
  /\ <<timers', sinceAppend'>> # <<timers, sinceAppend>>
  /\ UNCHANGED <<apiKey, prompt, isStreaming, messages, chunkQueue, animating,
                 sends, minGap>>
  /\ UNCHANGED page
  /\ UNCHANGED frameVars
  /\ UNCHANGED apiVars

Next ==
  \/ TypePrompt
  \/ ClickSend
  \/ PressEnter
  \/ \E k \in 1..Len(sends) : PushMessages(k)
  \/ \E k \in 1..Len(sends) : FetchOk(k)
  \/ \E k \in 1..Len(sends) : FetchFail(k)
  \/ \E k \in 1..Len(sends) : FetchNoBody(k)
  \/ \E k \in 1..Len(sends) : ReadValue(k)
  \/ \E k \in 1..Len(sends) : ReadDone(k)
  \/ \E k \in 1..Len(sends) : ReadError(k)
  \/ TimerFires
  \/ Tick

Spec == Init /\ [][Next]_vars

\* the timers fire and time passes
LiveSpec == Spec /\ WF_vars(TimerFires) /\ WF_vars(Tick)

\* the router leaves /chat: the component is unmounted; it registers no
\* cleanup, so nothing of it is stopped
Unmount ==
  /\ page.mounted
  /\ page' = [page EXCEPT !.mounted = FALSE]
  /\ UNCHANGED <<apiKey, prompt, isStreaming, messages, chunkQueue, animating,
                 timers, sends, sinceAppend, minGap>>
  /\ UNCHANGED frameVars
  /\ UNCHANGED apiVars

AbortNext == Next \/ Unmount

\* a Chat session that the user may leave at any time
SpecAbort == Init /\ [][AbortNext]_vars

\* ---------------------------------------------------------------------
\* Backend: POST /api/ollama/generate (SpecApi)
\* ---------------------------------------------------------------------

\* the tables: two projects and the models assigned to them
Tables ==
  { [projects |-> <<[id |-> 1, api_key |-> "k1", is_active |-> TRUE],
                    [id |-> 2, api_key |-> "k2", is_active |-> a]>>,
     project_models |-> pm, next_id |-> Len(pm) + 1] :
      a \in BOOLEAN,
      pm \in { <<>>,
               <<[id |-> 1, project_id |-> 1, model_name |-> "m1"]>>,
               <<[id |-> 1, project_id |-> 1, model_name |-> "m1"],
                 [id |-> 2, project_id |-> 2, model_name |-> "m2"]>> } }

ApiInit ==
  /\ db \in Tables
  /\ exch = NoExchange
  /\ admin = NoAdmin
  /\ upstream = <<>>
  /\ delivered = 0
  /\ nreads = 0
  /\ buffer = <<>>
  /\ partial = FALSE
  /\ records = <<>>
  /\ chunks = <<>>
  /\ rpc = "done"
  /\ apiKey = <<>>
  /\ prompt = <<>>
  /\ isStreaming = FALSE
  /\ messages = <<>>
  /\ chunkQueue = <<>>
  /\ animating = FALSE
  /\ timers = <<>>
  /\ sends = <<>>
  /\ sinceAppend = wordDelay
  /\ minGap = wordDelay
  /\ page = Shown

\* a request arrives: ValidateAPIKey and OllamaGenerate run until the
\* handler returns or is waiting in client.Post
PostGenerateOf(headers, bodies) ==
  /\ exch.pc \in {"idle", "responded"}
  /\ \E header \in headers, body \in bodies :
       LET early == precheck(db, header, body)
           arrived == [NoExchange EXCEPT !.header = header, !.body = body]
       IN IF early # NoResponse
          THEN exch' = [arrived EXCEPT !.pc = "responded", !.resp = early]
          ELSE exch' = [arrived EXCEPT !.pc = "posting",
                                       !.req = BodyParser(body).req,
                                       !.called = TRUE]
  /\ UNCHANGED <<db, admin>>
  /\ UNCHANGED <<frameVars, chatVars>>

PostGenerate == PostGenerateOf(Headers, RequestBodies)

\* client.Post fails: no connection, or the client's timeout
ClientPostFails ==
  /\ exch.pc = "posting"
  /\ exch' = [exch EXCEPT !.pc = "responded", !.upState = "failed",
                          !.resp = connectFailure]
  /\ UNCHANGED <<db, admin>>
  /\ UNCHANGED <<frameVars, chatVars>>

\* client.Post returns the engine's status line and headers
ClientPostReturns ==
  /\ exch.pc = "posting"
  /\ \E status \in EngineStatuses, type \in EngineTypes :
       exch' = [exch EXCEPT !.pc = "reading", !.upState = "open",
                            !.upStatus = status, !.upType = type]
  /\ UNCHANGED <<db, admin>>
  /\ UNCHANGED <<frameVars, chatVars>>

\* io.ReadAll takes in the next bytes of the engine's body
ReadAllChunk ==
  /\ exch.pc = "reading"
  /\ Len(exch.upBody) < MaxBody
  /\ \E c \in EngineChunks :
       exch' = [exch EXCEPT !.upBody = Append(@, c)]
  /\ UNCHANGED <<db, admin>>
  /\ UNCHANGED <<frameVars, chatVars>>

\* io.ReadAll fails: the connection breaks, or the client's timeout
ReadAllFails ==
  /\ exch.pc = "reading"
  /\ exch' = [exch EXCEPT !.pc = "responded", !.upState = "broken",
                          !.resp = readFailure]
  /\ UNCHANGED <<db, admin>>
  /\ UNCHANGED <<frameVars, chatVars>>

\* io.ReadAll reaches the end of the body; the handler answers
ReadAllEOF ==
  /\ exch.pc = "reading"
  /\ exch' = [exch EXCEPT !.pc = "responded", !.upState = "eof",
                          !.resp = engineReply(exch.upStatus, exch.upBody)]
  /\ UNCHANGED <<db, admin>>
  /\ UNCHANGED <<frameVars, chatVars>>

ApiNext ==
  \/ PostGenerate
  \/ ClientPostFails
  \/ ClientPostReturns
  \/ ReadAllChunk
  \/ ReadAllFails
  \/ ReadAllEOF

SpecApi == ApiInit /\ [][ApiNext]_vars

\* ---------------------------------------------------------------------
\* Backend: project administration beside the generate endpoint (SpecAdmin)
\* ---------------------------------------------------------------------

\* the most project_models rows ever created
MaxRows == 2

StatusCreated == 201
StatusNotFound == 404

\* the {id} path parameter: two projects and an id of none
ProjectIds == {1, 2, 7}

\* model_name in the body of AssignModel
ModelNames == {"m1", "m2"}

\* the generate requests sent while projects are administered
AdminBodies ==
  [ctype : {"application/json"}, ok : {TRUE}, model : ModelNames,
   prompt : {"p"}, stream : {FALSE}, images : {<<>>}, attachments : {<<>>}]

\* DB.First(&project, id): the matching rows
projectById(d, id) == SelectSeq(d.projects, LAMBDA p : p.id = id)

\* the handler's response to client a
Answered(a, status) ==
  [admin EXCEPT ![a] = [NoCall EXCEPT !.status = status]]

AdminInit ==
  /\ db = [projects |-> <<[id |-> 1, api_key |-> "k1", is_active |-> TRUE],
                          [id |-> 2, api_key |-> "k2", is_active |-> FALSE]>>,
           project_models |-> <<>>,
           next_id |-> 1]
  /\ exch = NoExchange
  /\ admin = NoAdmin
  /\ upstream = <<>>
  /\ delivered = 0
  /\ nreads = 0
  /\ buffer = <<>>
  /\ partial = FALSE
  /\ records = <<>>
  /\ chunks = <<>>
  /\ rpc = "done"
  /\ apiKey = <<>>
  /\ prompt = <<>>
  /\ isStreaming = FALSE
  /\ messages = <<>>
  /\ chunkQueue = <<>>
  /\ animating = FALSE
  /\ timers = <<>>
  /\ sends = <<>>
  /\ sinceAppend = wordDelay
  /\ minGap = wordDelay
  /\ page = Shown

\* a generate request with a project's key
AdminGenerate == PostGenerateOf({"k1", "k2"}, AdminBodies)

\* ToggleProjectStatus as far as DB.First: 404, or the project is loaded
ToggleLoad(a) ==
  /\ admin[a].pc = "idle"
  /\ \E id \in ProjectIds :
       LET found == projectById(db, id)
       IN IF found = <<>>
          THEN admin' = Answered(a, StatusNotFound)
          ELSE admin' = [admin EXCEPT ![a] =
                           [NoCall EXCEPT !.pc = "toggle",
                                          !.project_id = id,
                                          !.is_active = Head(found).is_active]]
  /\ UNCHANGED <<db, exch>>
  /\ UNCHANGED <<frameVars, chatVars>>

\* ToggleProjectStatus: the loaded flag is inverted and DB.Save writes it
ToggleSave(a) ==
  /\ admin[a].pc = "toggle"
  /\ db' = [db EXCEPT !.projects =
              [i \in 1..Len(@) |->
                 IF @[i].id = admin[a].project_id
                 THEN [@[i] EXCEPT !.is_active = ~admin[a].is_active]
                 ELSE @[i]]]
  /\ admin' = Answered(a, StatusOK)
  /\ UNCHANGED exch
  /\ UNCHANGED <<frameVars, chatVars>>

\* the assignment rows of a project with a model name
assignments(d, project_id, model_name) ==
  SelectSeq(d.project_models,
            LAMBDA r : r.project_id = project_id /\ r.model_name = model_name)

\* the calls of AssignModel that have passed the check and not yet created
\* their row
Creating == { b \in Admins : admin[b].pc = "assign" }

\* AssignModel as far as the check for an existing assignment: 404, 400, or
\* the handler goes on to DB.Create
AssignCheck(a) ==
  /\ admin[a].pc = "idle"
  /\ db.next_id + Cardinality(Creating) <= MaxRows
  /\ \E id \in ProjectIds, ok \in BOOLEAN, model_name \in ModelNames :
       IF projectById(db, id) = <<>>
       THEN admin' = Answered(a, StatusNotFound)
       ELSE IF ~ok
       THEN admin' = Answered(a, StatusBadRequest)
       ELSE IF assignments(db, id, model_name) # <<>>
       THEN admin' = Answered(a, StatusBadRequest)
       ELSE admin' = [admin EXCEPT ![a] =
                        [NoCall EXCEPT !.pc = "assign",
                                       !.project_id = id,
                                       !.model_name = model_name]]
  /\ UNCHANGED <<db, exch>>
  /\ UNCHANGED <<frameVars, chatVars>>

\* AssignModel: DB.Create inserts the row
AssignCreate(a) ==
  /\ admin[a].pc = "assign"
  /\ db' = [db EXCEPT !.project_models =
                        Append(@, [id |-> db.next_id,
                                   project_id |-> admin[a].project_id,
                                   model_name |-> admin[a].model_name]),
                      !.next_id = @ + 1]
  /\ admin' = Answered(a, StatusCreated)
  /\ UNCHANGED exch
  /\ UNCHANGED <<frameVars, chatVars>>

\* UnassignModel: the row with this id and project is deleted, or 404
UnassignModel(a) ==
  /\ admin[a].pc = "idle"
  /\ \E id \in ProjectIds, modelId \in 1..MaxRows :
       LET found == SelectSeq(db.project_models,
                              LAMBDA r : r.id = modelId /\ r.project_id = id)
       IN IF found = <<>>
          THEN /\ admin' = Answered(a, StatusNotFound)
               /\ UNCHANGED db
          ELSE /\ db' = [db EXCEPT !.project_models =
                           SelectSeq(@, LAMBDA r : r.id # modelId)]
               /\ admin' = Answered(a, StatusOK)
  /\ UNCHANGED exch
  /\ UNCHANGED <<frameVars, chatVars>>

AdminNext ==
  \/ AdminGenerate
  \/ ClientPostFails
  \/ \E a \in Admins : ToggleLoad(a)
  \/ \E a \in Admins : ToggleSave(a)
  \/ \E a \in Admins : AssignCheck(a)
  \/ \E a \in Admins : AssignCreate(a)
  \/ \E a \in Admins : UnassignModel(a)

SpecAdmin == AdminInit /\ [][AdminNext]_vars

(***************************************************************************)
(* Properties of the session                                               *)
(***************************************************************************)
\* the handleSend calls that have pushed their assistant message
Started == { k \in 1..Len(sends) : sends[k].assistantId # 0 }

MessageOf(k) == messages[findIndex(messages, sends[k].assistantId)]

\* the fragments enqueued for the message of send k so far, in enqueue order
Enqueued(k) == chunksOf(sends[k].records)

\* the chunks waiting in the queue for message id, in queue order
RECURSIVE QueuedFor(_, _)
QueuedFor(q, id) ==
  IF q = <<>> THEN <<>>
  ELSE IF Head(q).id = id
       THEN <<Head(q).chunk>> \o QueuedFor(Tail(q), id)
       ELSE QueuedFor(Tail(q), id)

\* C2: the text of a message no error was appended to is the concatenation
\* of a prefix of the fragments enqueued for it, in enqueue order, and the
\* rest of them wait in the queue in that order
C2_FragmentOrder ==
  \A k \in Started :
    sends[k].pc # "errored" =>
      \E n \in 0..Len(Enqueued(k)) :
        /\ MessageOf(k).text = Flatten(SubSeq(Enqueued(k), 1, n))
        /\ QueuedFor(chunkQueue, sends[k].assistantId)
             = SubSeq(Enqueued(k), n + 1, Len(Enqueued(k)))

\* three fragments, not all the same, enqueued for one message: some
\* appended, some waiting
C2_Witness ==
  \E k \in Started :
    /\ sends[k].pc # "errored"
    /\ Len(Enqueued(k)) = 3
    /\ Enqueued(k)[1] # Enqueued(k)[2]
    /\ Len(MessageOf(k).text) = 2
    /\ QueuedFor(chunkQueue, sends[k].assistantId) # <<>>

\* C3: at most one processQueue call is running, and one is running exactly
\* when animatingRef is set
C3_SingleLoop ==
  /\ Len(timers) <= 1
  /\ animating <=> Len(timers) = 1

\* chunks were enqueued while the loop was suspended in its delay
C3_Witness ==
  /\ animating
  /\ Len(timers) = 1
  /\ Len(chunkQueue) >= 2

\* C4: the text of a message whose streaming flag is cleared does not change
C4_FrozenAfterStreaming ==
  [][\A i \in 1..Len(messages) :
       (messages[i].role = "assistant" /\ ~messages[i].streaming)
         => messages'[i].text = messages[i].text]_vars

\* C7: a message keeps its id and role, and once its streaming flag is
\* cleared the flag stays cleared
C7_NoRestart ==
  [][\A i \in 1..Len(messages) :
       /\ Len(messages') >= Len(messages)
       /\ messages'[i].id = messages[i].id
       /\ messages'[i].role = messages[i].role
       /\ ~messages[i].streaming => ~messages'[i].streaming]_vars

\* a message whose flag is cleared while a fragment for it is still queued
\* and a later send is streaming
C7_Witness ==
  \E k, l \in Started :
    /\ k # l
    /\ ~MessageOf(k).streaming
    /\ QueuedFor(chunkQueue, sends[k].assistantId) # <<>>
    /\ MessageOf(l).streaming

HasDone(recs) == \E i \in 1..Len(recs) : recs[i].done

\* C8: once a record with done=true has been parsed for a message, the
\* message is no longer streaming
C8_CompletedOnDone ==
  \A k \in Started : HasDone(sends[k].records) => ~MessageOf(k).streaming

\* every fragment enqueued for a message no error was appended to is in
\* its text
Revealed ==
  \A k \in Started :
    sends[k].pc # "errored" => MessageOf(k).text = Flatten(Enqueued(k))

\* C9: whenever fragments are queued, the queue eventually is empty, the
\* loop idle and every message's text the concatenation of its fragments
C9_EventualReveal ==
  (chunkQueue # <<>>) ~> (chunkQueue = <<>> /\ ~animating /\ timers = <<>> /\ Revealed)

\* three fragments of one message fully revealed and the loop idle
C9_Witness ==
  /\ chunkQueue = <<>>
  /\ ~animating
  /\ \E k \in Started :
       /\ sends[k].pc = "completed"
       /\ Len(Enqueued(k)) = 3
       /\ MessageOf(k).text = Flatten(Enqueued(k))

\* C10: no two appends of processQueue are less than wordDelay apart
C10_Paced == minGap >= wordDelay

\* the loop has just appended the second fragment of a message
C10_Witness ==
  /\ sinceAppend = 0
  /\ chunkQueue # <<>>
  /\ \E k \in Started :
       /\ sends[k].pc # "errored"
       /\ Len(Enqueued(k)) >= 3
       /\ MessageOf(k).text = Flatten(SubSeq(Enqueued(k), 1, 2))

\* the error text occurs in text
ContainsError(text) ==
  \E i \in 1..(Len(text) - 1) : SubSeq(text, i, i + 1) = ErrorText

\* C11: once streamGenerate has rejected, the error text is in the
\* assistant message and the message's streaming flag is cleared
C11_ErrorSurfaced ==
  \A k \in Started :
    sends[k].pc = "errored" =>
      /\ ContainsError(MessageOf(k).text)
      /\ ~MessageOf(k).streaming

\* a read failure after fragments had been parsed, and a failed fetch
C11_Witness ==
  /\ \E k \in Started : sends[k].pc = "errored" /\ sends[k].records # <<>>
  /\ \E k \in Started : sends[k].pc = "errored" /\ sends[k].reads = 0

\* C12: the error text is appended at once, past the queue: the text of an
\* errored message is the fragments appended before the failure, the error
\* text, then the fragments that were queued at the failure as far as they
\* have been appended since; the others still wait in the queue
C12_ErrorBypassesQueue ==
  \A k \in Started :
    sends[k].pc = "errored" =>
      \E n \in 0..Len(Enqueued(k)) : \E j \in 0..n :
        /\ MessageOf(k).text = Flatten(SubSeq(Enqueued(k), 1, j)) \o ErrorText
                                 \o Flatten(SubSeq(Enqueued(k), j + 1, n))
        /\ QueuedFor(chunkQueue, sends[k].assistantId)
             = SubSeq(Enqueued(k), n + 1, Len(Enqueued(k)))

\* a fragment that was queued at the failure stands after the error text
C12_Witness ==
  \E k \in Started :
    /\ sends[k].pc = "errored"
    /\ Len(Enqueued(k)) = 2
    /\ MessageOf(k).text = Enqueued(k)[1] \o ErrorText \o Enqueued(k)[2]

\* ---------------------------------------------------------------------
\* Properties of the generate endpoint (SpecApi)
\* ---------------------------------------------------------------------

\* the request being served carries the key of an active project
KeyOfActiveProject ==
  \E i \in 1..Len(db.projects) :
    db.projects[i].api_key = exch.header /\ db.projects[i].is_active

\* its body is well-formed JSON or a well-formed multipart form
WellFormedBody ==
  exch.body.ok /\ exch.body.ctype \in {"application/json", "multipart/form-data"}

\* C14: an authenticated request whose model or prompt is absent or empty,
\* in JSON or multipart encoding, is answered 400 and never reaches
\* client.Post
C14_ValidationFailsFast ==
  ( /\ exch.pc # "idle"
    /\ exch.header # ""
    /\ KeyOfActiveProject
    /\ WellFormedBody
    /\ (exch.body.model = "" \/ exch.body.prompt = "") )
  => /\ ~exch.called
     /\ exch.pc = "responded"
     /\ exch.resp.status = StatusBadRequest

\* the handler answered without calling the engine
RejectedWith(status) ==
  /\ exch.pc = "responded"
  /\ ~exch.called
  /\ exch.resp.status = status
  /\ exch.resp.error # ""

\* C15: a request without X-API-Key or whose key matches no project gets
\* 401, a request of an inactive project gets 403, a request for a model
\* that is not assigned to the project gets 403, and none of them reaches
\* client.Post
C15_AuthorizationFailsFast ==
  exch.pc # "idle" =>
    /\ ( \/ exch.header = ""
         \/ \A i \in 1..Len(db.projects) :
              db.projects[i].api_key # exch.header )
       => RejectedWith(StatusUnauthorized)
    /\ ( \E i \in 1..Len(db.projects) :
           db.projects[i].api_key = exch.header /\ ~db.projects[i].is_active )
       => RejectedWith(StatusForbidden)
    /\ ( /\ exch.header # ""
         /\ WellFormedBody
         /\ \E i \in 1..Len(db.projects) :
              /\ db.projects[i].api_key = exch.header
              /\ db.projects[i].is_active
              /\ \A j \in 1..Len(db.project_models) :
                   \/ db.project_models[j].project_id # db.projects[i].id
                   \/ db.project_models[j].model_name # exch.body.model )
       => RejectedWith(StatusForbidden)

\* an active project that has a model asks for another one
C15_Witness ==
  /\ exch.header = "k1"
  /\ exch.body.model = "m2"
  /\ WellFormedBody
  /\ db.project_models # <<>>
  /\ RejectedWith(StatusForbidden)

\* the bytes written to the caller so far
Downstream == IF exch.pc = "responded" THEN exch.resp.body ELSE <<>>

\* C16: for a stream=true request the engine's bytes are written to the
\* caller as they are read, and the response has the engine's content type
C16_RelayPassthrough ==
  ( /\ exch.req.stream
    /\ exch.upState \in {"open", "eof"}
    /\ exch.upStatus = StatusOK )
  => /\ Downstream = exch.upBody
     /\ exch.pc = "responded" => exch.resp.ctype = exch.upType

\* C17 as stated: every response status is 200, 400, 401, 403 or 502
C17_StatusContract ==
  exch.pc = "responded" =>
    exch.resp.status \in { StatusOK, StatusBadRequest, StatusUnauthorized,
                           StatusForbidden, StatusBadGateway }

\* C17: every response status is 200, 400, 401, 403 or 502, or 500 when
\* reading the engine's body failed, or the engine's own status when the
\* engine answered with another status than 200
C17_StatusContractAmended ==
  exch.pc = "responded" =>
    \/ exch.resp.status \in { StatusOK, StatusBadRequest, StatusUnauthorized,
                              StatusForbidden }
    \/ exch.resp.status = StatusBadGateway /\ exch.upState = "failed"
    \/ exch.resp.status = StatusInternalServerError /\ exch.upState = "broken"
    \/ /\ exch.upState = "eof"
       /\ exch.upStatus # StatusOK
       /\ exch.resp.status = exch.upStatus

\* the engine's 404 is passed on
C17_Witness ==
  /\ exch.pc = "responded"
  /\ exch.upState = "eof"
  /\ exch.upStatus = 404
  /\ exch.resp.status = 404

\* C18: an engine answer outside 2xx is answered with the engine's status
\* and the engine's raw body, and an engine answer within 2xx is never
\* reported as an engine error
C18_UpstreamNon2xx ==
  (exch.pc = "responded" /\ exch.upState = "eof") =>
    /\ exch.upStatus \notin 200..299 =>
         /\ exch.resp.status = exch.upStatus
         /\ exch.resp.error = "Ollama API error"
         /\ exch.resp.body = exch.upBody
    /\ exch.upStatus \in 200..299 => exch.resp.error = ""

\* C19: when client.Post fails the request is answered at once with 502
\* and an error body, never with a success or a part of an engine body
C19_UpstreamUnavailable ==
  exch.upState = "failed" =>
    /\ exch.pc = "responded"
    /\ exch.called
    /\ exch.resp.status = StatusBadGateway
    /\ exch.resp.ctype = "application/json"
    /\ exch.resp.error = "Failed to connect to Ollama"
    /\ exch.resp.body = <<>>

\* the engine could not be reached for a request that passed every check
C19_Witness ==
  /\ exch.upState = "failed"
  /\ exch.pc = "responded"
  /\ exch.req.model = "m1"
  /\ exch.req.prompt = "p"

\* C20: a 200 response is written after the whole engine body was read and
\* its body is one parsed record of model, created_at, response and done
C20_NonStreaming ==
  (exch.pc = "responded" /\ exch.resp.status = StatusOK) =>
    /\ exch.upState = "eof"
    /\ Len(exch.resp.body) = 1
    /\ exch.resp.body[1].kind = "obj"
    /\ ~exch.resp.body[1].extra

\* C21: a multipart request with a prompt and n file parts named attachments
\* reaches client.Post as a request whose images list has n entries, one for
\* each part
C21_MultipartIngestion ==
  ( /\ exch.called
    /\ exch.body.ctype = "multipart/form-data"
    /\ exch.body.prompt # "" )
  => Len(exch.req.images) = Len(exch.body.attachments)

\* C22: after the generation is abandoned, and one step later at the most,
\* no chunk is read, no line or rest of the buffer is parsed, and no
\* fragment is taken from the queue or appended
C22_Cancellation ==
  [][ (~page.mounted /\ page.ran >= 1) =>
        /\ messages' = messages
        /\ chunkQueue' = chunkQueue
        /\ Len(sends') = Len(sends)
        /\ \A k \in 1..Len(sends) :
             /\ sends'[k].reads = sends[k].reads
             /\ sends'[k].records = sends[k].records ]_vars

\* ---------------------------------------------------------------------
\* Properties of generation under project administration (SpecAdmin)
\* ---------------------------------------------------------------------

\* this step is the arrival of a generate request
Arrives == exch.pc \in {"idle", "responded"} /\ exch' # exch

\* project row i has a project_models row with this model name
AssignedTo(i, model_name) ==
  \E j \in 1..Len(db.project_models) :
    /\ db.project_models[j].project_id = db.projects[i].id
    /\ db.project_models[j].model_name = model_name

\* C23: a generate request that arrives with the key of a project whose
\* is_active is false is answered 403 and not sent to the engine; when the
\* project is active, as after a second ToggleProjectStatus, a request for
\* a model assigned to it is sent to the engine
C23_InactiveRejected ==
  [][ Arrives =>
        \A i \in 1..Len(db.projects) :
          db.projects[i].api_key = exch'.header =>
            /\ ~db.projects[i].is_active =>
                 /\ exch'.pc = "responded"
                 /\ ~exch'.called
                 /\ exch'.resp.status = StatusForbidden
            /\ (db.projects[i].is_active /\ AssignedTo(i, exch'.body.model)) =>
                 /\ exch'.pc = "posting"
                 /\ exch'.called ]_vars

\* the project that started inactive has been activated and given a model,
\* and its request is on its way to the engine
C23_Witness ==
  /\ exch.header = "k2"
  /\ exch.pc = "posting"
  /\ exch.called
  /\ \E i \in 1..Len(db.projects) :
       db.projects[i].api_key = "k2" /\ db.projects[i].is_active

\* C24: a generate request is sent to the engine only if its model is
\* assigned to the project of its key when it arrives, and once
\* UnassignModel has deleted an assignment the project no longer has that
\* model, so that a later request for it is answered 403
C24_AssignmentGates ==
  [][ /\ Arrives =>
           \A i \in 1..Len(db.projects) :
             (db.projects[i].api_key = exch'.header /\ exch'.called) =>
               AssignedTo(i, exch'.body.model)
      /\ \A j \in 1..Len(db.project_models) :
           (\A n \in 1..Len(db'.project_models) :
              db'.project_models[n].id # db.project_models[j].id)
           => assignments(db', db.project_models[j].project_id,
                          db.project_models[j].model_name) = <<>> ]_vars

\* C25: no project has two project_models rows with the same model name
C25_NoDuplicateAssignment ==
  \A i, j \in 1..Len(db.project_models) :
    ( /\ db.project_models[i].project_id = db.project_models[j].project_id
      /\ db.project_models[i].model_name = db.project_models[j].model_name )
    => i = j

\* ---------------------------------------------------------------------
\* Further properties of the Chat session (Spec) and of streamGenerate
\* (SpecFrame)
\* ---------------------------------------------------------------------

\* C26: whenever the fragment queue is not empty animatingRef is true, and
\* while animatingRef is true a processQueue call is suspended on its timer
\* and will take the next fragment
C26_NoStrandedFragments ==
  /\ chunkQueue # <<>> => animating
  /\ animating => Len(timers) >= 1

\* two fragments wait while the loop sleeps
C26_Witness ==
  /\ Len(chunkQueue) >= 2
  /\ animating
  /\ Len(timers) = 1

\* the sends whose streamGenerate call has not settled
InFlight == { k \in 1..Len(sends) : sends[k].pc \in {"fetch", "reading"} }

\* C27: at most one streamGenerate call is in flight in a session, and the
\* fragment queue never holds fragments of two assistant messages
C27_SingleFlight ==
  /\ Cardinality(InFlight) <= 1
  /\ \A i, j \in 1..Len(chunkQueue) : chunkQueue[i].id = chunkQueue[j].id

\* the streamGenerate call of send k has resolved or rejected
Settled(k) == sends[k].pc \in {"errored", "completed"}

\* C28: in the step in which the streamGenerate call of a send settles,
\* isStreaming becomes false and the streaming flag of the send's assistant
\* message is cleared; the flag stays cleared, and isStreaming is false
\* when every send has settled
C28_PlaceholderTerminated ==
  [][ /\ \A k \in 1..Len(sends) :
           (~Settled(k) /\ Settled(k)') => ~isStreaming'
      /\ \A k \in 1..Len(sends') :
           Settled(k)' => ~(MessageOf(k).streaming)'
      /\ (sends' # <<>> /\ \A k \in 1..Len(sends') : Settled(k)')
           => ~isStreaming' ]_vars

\* one send has failed and another has completed
C28_Witness ==
  /\ \E k \in 1..Len(sends) : sends[k].pc = "errored"
  /\ \E k \in 1..Len(sends) : sends[k].pc = "completed"
  /\ ~isStreaming
  /\ \A i \in 1..Len(messages) : ~messages[i].streaming

\* the bytes handed out so far
BytesSoFar == SubSeq(upstream, 1, delivered)

\* the place of the last newline among them, 0 when there is none
LastNewline ==
  IF \E i \in 1..delivered : upstream[i] = NL
  THEN CHOOSE i \in 1..delivered :
         upstream[i] = NL /\ \A j \in (i + 1)..delivered : upstream[j] # NL
  ELSE 0

\* C29: after each chunk the buffer holds no newline and is exactly the
\* text of the bytes received after the last newline; a lead byte the
\* decoder holds back is kept by the decoder, not lost
C29_ResidualBuffer ==
  /\ \A i \in 1..Len(buffer) : buffer[i] # NL
  /\ decode(SubSeq(upstream, LastNewline + 1, delivered), FALSE)
       = [text |-> buffer, partial |-> partial]

\* a complete line has been consumed and the start of the next one is held
C29_Witness ==
  /\ nreads >= 2
  /\ LastNewline > 0
  /\ buffer # <<>>
  /\ Len(buffer) < delivered - LastNewline

\* the texts appendToAssistant is called with
AppendedTexts == { ErrorText, <<"a">>, <<"b", SP>> }

\* C30: appendToAssistant(id, text) leaves the number and order of the
\* messages and every message but the first with that id as they are, and
\* of that message it changes the text only, by appending; with an id no
\* message has, the list is unchanged
C30_AppendFrame ==
  \A id \in 0..(Len(messages) + 1), text \in AppendedTexts :
    LET after == appendToAssistant(messages, id, text)
    IN /\ Len(after) = Len(messages)
       /\ \A i \in 1..Len(messages) :
            IF messages[i].id = id
            THEN /\ after[i].text = messages[i].text \o text
                 /\ after[i].id = messages[i].id
                 /\ after[i].role = messages[i].role
                 /\ after[i].images = messages[i].images
                 /\ after[i].streaming = messages[i].streaming
            ELSE after[i] = messages[i]
       /\ (\A i \in 1..Len(messages) : messages[i].id # id) => after = messages

\* two exchanges, one assistant message has text and the other is streaming
C30_Witness ==
  /\ Len(messages) = 4
  /\ \E i, j \in 1..Len(messages) :
       /\ i # j
       /\ messages[i].role = "assistant" /\ messages[i].text # <<>>
       /\ messages[j].role = "assistant" /\ messages[j].streaming

====
